---- MODULE Spec2Model ----
\* A model of the live-share session synchronisation of vscode-R
\* (src/src/liveshare/share.ts): role monitoring, the host and guest services,
\* the request/notify calls and the cleanup that runs when a session ends.
EXTENDS Integers, Sequences, FiniteSets, TLC

\* ---------------------------------------------------------------- bounds
MaxEvents == 2        \* role-change events the platform delivers
MaxListen == 2        \* runs of LiveSessionListener (activation + retry)
MaxTasks == 2         \* suspended calls awaiting the platform at one time
MaxBrowsers == 2      \* entries of browserDisposables
MaxPending == 1       \* awaited guest requests without a reply yet

\* ---------------------------------------------------------------- domains
Roles == {"None", "Guest", "Host", "Unknown"}
Files == {"f1", "f2"}
Envs == {"e1", "e2"}
Texts == {"t1", "t2"}
Encodings == {"undefined", "utf8"}
\* what the host's reply to a request can be, by runtime type and truthiness
ReplyValues ==
    { [type |-> "string", truthy |-> TRUE],
      [type |-> "string", truthy |-> FALSE],
      [type |-> "buffer", truthy |-> TRUE],
      [type |-> "undefined", truthy |-> FALSE],
      [type |-> "object", truthy |-> TRUE] }
NoValue == [type |-> "undefined", truthy |-> FALSE]
\* what a call returned when it returned no content
Void == [type |-> "void", truthy |-> FALSE]
Rejected == [type |-> "rejected", truthy |-> FALSE]

RECURSIVE SeqsUpTo(_, _)
SeqsUpTo(S, n) ==
    IF n = 0 THEN { <<>> }
    ELSE SeqsUpTo(S, n - 1)
         \cup { Append(q, x) :
                  q \in { r \in SeqsUpTo(S, n - 1) : Len(r) = n - 1 }, x \in S }

\* what the window shows when requestAttach runs: vscode.window.terminals and
\* vscode.window.activeTerminal (an index into terminals, 0 when there is none)
TerminalViews ==
    { [terminals |-> <<>>, active |-> 0],
      [terminals |-> <<"bash">>, active |-> 1],
      [terminals |-> <<"bash", "R [Shared]">>, active |-> 2],
      [terminals |-> <<"bash", "R [Shared]">>, active |-> 1],
      [terminals |-> <<"bash", "R [Shared]", "R Interactive [Shared]">>, active |-> 1] }

\* shareSession.browserDisposables when cleanup runs: for each entry, whether
\* its dispose() throws
BrowserLists == SeqsUpTo(BOOLEAN, MaxBrowsers)

VARIABLES
    enableSessionWatcher, \* extension.ts: whether the session watcher is on
    initCalled,           \* initLiveShare has been called
    role,                 \* liveSession.session.role, owned by the platform
    liveSession,          \* the platform API has been obtained
    aborted,              \* context value r.liveShare:aborted
    gen,                  \* number of LiveSessionListener runs: rHostService and
                          \* rGuestService are the objects of run gen (0: undefined)
    listeners,            \* onDidChangeSession subscriptions
    isGuestSession,       \* "undefined", "true" or "false"
    retryCmd,             \* the command r.liveShare.retry is registered
    hostStarted,          \* rHostService._isStarted
    guestStarted,         \* rGuestService._isStarted
    service,              \* "undefined", "null", "shared" (host) or "proxy" (guest)
    hostBound,            \* a pass has bound Commands.host with onRequest
    guestBound,           \* a pass has bound Commands.guest with onRequest
    shareWorkspace,       \* shareTree.shareWorkspace
    globalenv,            \* session.globalenv
    tasks,                \* calls suspended at an await on the platform
    pending,              \* awaited guest requests that have no reply yet
    events,               \* number of role-change events delivered so far
    out,                  \* messages handed to request() by the last step
    eff,                  \* other effects of the last step, in order
    last,                 \* the operation of the last step and what it returned
    recentlyActiveViewers, \* HttpgdManager.recentlyActiveViewers
    serverIds,            \* the plot ids the httpgd server holds, oldest first
    drawn,                \* number of plots drawn so far (the ids are 1..drawn)
    plots,                \* HttpgdViewer.plots, as the sequence of the plots' ids
    hiddenPlots,          \* HttpgdViewer.hiddenPlots, as a set (the code only
                          \* pushes, tests membership and empties it)
    activePlot,           \* HttpgdViewer.activePlot (0: undefined)
    refreshes,            \* refreshPlots calls suspended at an await, oldest first
    latestIds,            \* the id list answered to the most recently begun
                          \* refreshPlots call (NoIds before the first answer)
    resizeBusy,           \* HttpgdViewer.resizeBusy
    resizing,             \* a handleResize call is suspended at its await
    cachedHelpFiles,      \* RHelp.cachedHelpFiles
    enableSyntaxHighlighting \* setting helpPanel.enableSyntaxHighlighting

vars == << enableSessionWatcher, initCalled, role, liveSession, aborted, gen,
           listeners, isGuestSession, retryCmd, hostStarted, guestStarted,
           service, hostBound, guestBound, shareWorkspace, globalenv,
           tasks, pending, events, out, eff, last,
           recentlyActiveViewers, serverIds, drawn, plots, hiddenPlots,
           activePlot, refreshes, latestIds, resizeBusy, resizing,
           cachedHelpFiles, enableSyntaxHighlighting >>

\* groups of variables, for the frames of the actions
platformVars == << enableSessionWatcher, role, events >>
listenVars == << initCalled, liveSession, aborted, listeners >>
tailVars == << isGuestSession, retryCmd >>
objVars == << gen, hostStarted, guestStarted >>
chanVars == << service, hostBound, guestBound >>
sessionVars == << shareWorkspace, globalenv >>
\* the state of the Live Share part of the extension
shareVars == << platformVars, listenVars, tailVars, objVars, chanVars,
                sessionVars, tasks, pending, out, eff >>
\* the state of the plot viewers and of the help panel
managerVars == << recentlyActiveViewers >>
plotVars == << serverIds, drawn, plots, hiddenPlots, activePlot, refreshes,
               latestIds >>
resizeVars == << resizeBusy, resizing >>
helpVars == << cachedHelpFiles, enableSyntaxHighlighting >>
viewVars == << managerVars, plotVars, resizeVars, helpVars >>

\* ---------------------------------------------------------------- helpers
Label(op, args, ret) == [op |-> op, args |-> args, ret |-> ret]

RemoveAt(s, i) == SubSeq(s, 1, i - 1) \o SubSeq(s, i + 1, Len(s))

\* shareCommands.request: hands the named call with its arguments to the
\* channel svc, the value `service` holds at that moment
request(svc, name, args) == [cmd |-> name, args |-> args, chan |-> svc]

Channels == {"shared", "proxy"}

\* the channel is disposed: every request awaiting its reply is settled with a
\* failure, which its suspended caller has yet to see
disposeChannel(p) == [k \in 1..Len(p) |-> [p[k] EXCEPT !.failed = TRUE]]

\* the notifications a connected guest receives: those put on the host's
\* shared channel, in send order
IsShared(m) == m.chan = "shared"
GuestReceived == SelectSeq(out, IsShared)

isLiveShare == liveSession /\ role # "None"
isGuest == IF isLiveShare THEN role = "Guest" ELSE FALSE
isHost == IF isLiveShare THEN role = "Host" ELSE FALSE

\* ---------------------------------------------------------------- HostService
\* HostService.notifyGlobalenv
notifyGlobalenv(hostEnv) ==
    IF hostStarted /\ shareWorkspace
    THEN << request(service, "env-update", <<hostEnv>>) >>
    ELSE <<>>

\* notifyRequest without the environment refresh
notifyRequest_noEnv(file, force) ==
    IF hostStarted /\ shareWorkspace
    THEN << request(service, "request-update", <<file, force>>) >>
    ELSE <<>>

\* HostService.notifyRequest
notifyRequest(file, force) ==
    IF hostStarted /\ shareWorkspace
    THEN << request(service, "request-update", <<file, force>>) >>
         \o notifyGlobalenv(globalenv)
    ELSE <<>>

\* notifyPlot without the shareWorkspace gate
notifyPlot_noGate(file) ==
    IF hostStarted
    THEN << request(service, "plot-update", <<file>>) >>
    ELSE <<>>

\* notifyPlot announcing the plot as a request update
notifyPlot_wrongCommand(file) ==
    IF hostStarted /\ shareWorkspace
    THEN << request(service, "request-update", <<file>>) >>
    ELSE <<>>

\* HostService.notifyPlot
notifyPlot(file) ==
    IF hostStarted /\ shareWorkspace
    THEN << request(service, "plot-update", <<file>>) >>
    ELSE <<>>

\* orderGuestDetach gated by shareWorkspace like the notify methods
orderGuestDetach_gated ==
    IF hostStarted /\ shareWorkspace
    THEN << request(service, "order-detach", <<>>) >>
    ELSE <<>>

\* HostService.orderGuestDetach
orderGuestDetach ==
    IF hostStarted
    THEN << request(service, "order-detach", <<>>) >>
    ELSE <<>>

\* ---------------------------------------------------------------- GuestService
rTermNameOptions == {"R [Shared]", "R Interactive [Shared]"}

\* requestAttach sending nothing
requestAttachOut_silent(started, svc) == <<>>

\* GuestService.requestAttach, the request it sends: started is this._isStarted
\* and svc the value of `service` when it runs
requestAttachOut(started, svc) ==
    IF started THEN << request(svc, "attach-guest", <<>>) >> ELSE <<>>

\* GuestService.requestAttach: reading the name of an undefined activeTerminal
\* throws
requestAttachThrows(started, view) == started /\ view.active = 0

RECURSIVE ShowMatching(_, _)
ShowMatching(ts, i) ==
    IF i > Len(ts) THEN <<>>
    ELSE (IF ts[i] \in rTermNameOptions THEN << <<"show", i>> >> ELSE <<>>)
         \o ShowMatching(ts, i + 1)

\* GuestService.requestAttach, the terminals it shows
requestAttachEff(started, view) ==
    IF started /\ view.active # 0
       /\ view.terminals[view.active] \notin rTermNameOptions
    THEN ShowMatching(view.terminals, 1)
    ELSE <<>>

\* requestRunTextInTerm with a guest-side check that drops some texts
requestRunTextInTerm_filtered(text) ==
    IF guestStarted /\ text # "t2"
    THEN << request(service, "run-text-in-term", <<text>>) >>
    ELSE <<>>

\* GuestService.requestRunTextInTerm
requestRunTextInTerm(text) ==
    IF guestStarted
    THEN << request(service, "run-text-in-term", <<text>>) >>
    ELSE <<>>

\* GuestService.requestFileContent, the request it sends
requestFileContentOut(file, encoding) ==
    IF guestStarted
    THEN IF encoding # "undefined"
         THEN << request(service, "get-file-content", <<file, encoding>>) >>
         ELSE << request(service, "get-file-content", <<file>>) >>
    ELSE <<>>

\* GuestService.requestFileContent, what it returns for the reply content
requestFileContentRet(encoding, content) ==
    IF encoding # "undefined"
    THEN IF content.type = "string" THEN content ELSE NoValue
    ELSE IF content.truthy THEN content ELSE NoValue

\* GuestService.requestHelpContent, the request it sends
requestHelpContentOut(file) ==
    << request(service, "get-help-file-content", <<file>>) >>

\* requestHelpContent returning whatever the reply is
requestHelpContentRet_unchecked(content) == content

\* GuestService.requestHelpContent, what it returns for the reply content
requestHelpContentRet(content) ==
    IF content.truthy THEN content ELSE NoValue

\* ---------------------------------------------------------------- cleanup
\* sessionCleanup, the loop over browserDisposables: dispose() is called on
\* the entries in order and a dispose() that throws ends the loop
RECURSIVE DisposeEff(_, _)
DisposeEff(bs, i) ==
    IF i > Len(bs) THEN <<>>
    ELSE IF bs[i] THEN << <<"dispose", i>> >>
    ELSE << <<"dispose", i>> >> \o DisposeEff(bs, i + 1)

\* sessionCleanup: whether the loop over browserDisposables throws
DisposeThrows(bs) == \E i \in 1..Len(bs) : bs[i]

\* a cleanup that refreshes the tree before it disposes of the browsers
cleanupEff_refreshFirst(bs) ==
    << <<"stopService", 0>>, <<"refresh", 0>> >> \o DisposeEff(bs, 1)

\* sessionCleanup with the Host Service started, once stopService has
\* returned: the loop over browserDisposables, then the refresh of the tree
cleanupEff(bs) ==
    << <<"stopService", 0>> >>
    \o DisposeEff(bs, 1)
    \o (IF DisposeThrows(bs) THEN <<>> ELSE << <<"refresh", 0>> >>)

\* ---------------------------------------------------------------- plot viewers
\* bounds of the plot viewer and help panel specifications
MaxRecent == 5
MaxPlots == 2
MaxRefreshes == 2

Viewers == {"v1", "v2", "v3"}
PlotIds == 1..MaxPlots
\* latestIds before any refreshPlots call has been answered
NoIds == << 0 >>

Min(a, b) == IF a < b THEN a ELSE b
Max(a, b) == IF a > b THEN a ELSE b
Range(s) == { s[i] : i \in 1..Len(s) }

\* Array.prototype.indexOf and findIndex on identity: the 0-based position of
\* the first occurrence, -1 when there is none
indexOf(s, v) ==
    IF \E i \in 1..Len(s) : s[i] = v
    THEN (CHOOSE i \in 1..Len(s) : s[i] = v /\ \A j \in 1..(i - 1) : s[j] # v) - 1
    ELSE -1

\* Array.prototype.splice(start, 1): a negative start counts from the end
splice(s, start) ==
    LET from == IF start < 0 THEN Max(Len(s) + start, 0) ELSE Min(start, Len(s))
    IN  IF from < Len(s) THEN RemoveAt(s, from + 1) ELSE s

\* HttpgdManager.registerActiveViewer: `if(ind)` is the truthiness of the
\* index, false for 0 only
registerActiveViewer(list, v) ==
    LET ind == indexOf(list, v)
    IN  << v >> \o (IF ind # 0 THEN splice(list, ind) ELSE list)

\* HttpgdViewer: get activeIndex
activeIndex(ps, active) == indexOf(ps, active)

\* HttpgdViewer: set activeIndex, the new value of activePlot
setActiveIndex_noClamp(ps, ind) ==
    IF Len(ps) = 0 THEN 0
    ELSE IF ind + 1 \in 1..Len(ps) THEN ps[ind + 1] ELSE 0

setActiveIndex(ps, ind) ==
    IF Len(ps) = 0 THEN 0
    ELSE ps[Min(Max(ind, 0), Len(ps) - 1) + 1]

\* plotIds.filter((id) => !this.hiddenPlots.includes(id))
Visible(ids, hidden) == SelectSeq(ids, LAMBDA id : id \notin hidden)

\* refreshPlots: some plot of the list is fetched from the server, because
\* the viewer does not hold it or because it is the active plot
needsContent(ids, ps, active) ==
    \E i \in 1..Len(ids) : ~(ids[i] \in Range(ps) /\ ids[i] # active)

\* refreshPlots: activePlot after the new list has been stored
activeAfterRefresh(ids, nPlots, active) ==
    IF Len(ids) # nPlots
    THEN (IF ids = <<>> THEN 0 ELSE ids[Len(ids)])
    ELSE active

\* ---------------------------------------------------------------- help panel
HelpPaths == {"/library/base/html/mean.html", "/doc/html/index.html", "/doc/NEWS", "/missing"}
\* a path the cache has no entry for, and the entry null
Absent == [kind |-> "absent"]
Null == [kind |-> "null"]
\* html0 is a list: empty while the field is unset
NoHtml == <<>>

\* the content of a help page: its text, whether it is an html document,
\* whether its head carries style elements, whether its code sections are
\* highlighted
Page(text, isHtml, style, highlighted) ==
    [text |-> text, isHtml |-> isHtml, style |-> style, highlighted |-> highlighted]

\* a help file as the help provider builds it
HelpFile(page) == [kind |-> "file", html |-> page, isModified |-> FALSE, html0 |-> NoHtml]

\* helpProvider.getHelpFileFromRequestPath: the file the help server answers
getHelpFileFromRequestPath(path) ==
    CASE path = "/library/base/html/mean.html" ->
            HelpFile(Page("mean", TRUE, TRUE, FALSE))
      [] path = "/doc/html/index.html" ->
            HelpFile(Page("index", TRUE, FALSE, FALSE))
      [] path = "/doc/NEWS" ->
            HelpFile(Page("NEWS", FALSE, FALSE, FALSE))
      [] OTHER -> Null

\* RHelp.pimpMyHelp: keeps the original in html0, wraps a text that is not
\* html into an html document, removes the style elements of the head and
\* highlights the code sections when the setting is on
pimpMyHelp(helpFile, highlight) ==
    IF helpFile.isModified THEN helpFile
    ELSE [kind |-> "file",
          html |-> Page(helpFile.html.text, TRUE, FALSE,
                        helpFile.html.highlighted \/ highlight),
          isModified |-> TRUE,
          html0 |-> << helpFile.html >>]

\* getHelpFileForPath: the cache entry after the call
cacheAfter(cache, path, modify, highlight) ==
    LET fetched == IF cache[path] = Absent THEN getHelpFileFromRequestPath(path)
                   ELSE cache[path]
    IN  IF fetched # Null /\ modify THEN pimpMyHelp(fetched, highlight) ELSE fetched

\* the state of the plot viewers and of the help panel after construction
InitView ==
    /\ recentlyActiveViewers = <<>>
    /\ serverIds = <<>>
    /\ drawn = 0
    /\ plots = <<>>
    /\ hiddenPlots = {}
    /\ activePlot = 0
    /\ refreshes = <<>>
    /\ latestIds = NoIds
    /\ resizeBusy = FALSE
    /\ resizing = FALSE
    /\ cachedHelpFiles = [p \in HelpPaths |-> Absent]
    /\ enableSyntaxHighlighting = TRUE

\* ---------------------------------------------------------------- state
Init ==
    /\ enableSessionWatcher \in BOOLEAN
    /\ initCalled = FALSE
    /\ role = "None"
    /\ liveSession = FALSE
    /\ aborted = FALSE
    /\ gen = 0
    /\ listeners = 0
    /\ isGuestSession = "undefined"
    /\ retryCmd = FALSE
    /\ hostStarted = FALSE
    /\ guestStarted = FALSE
    /\ service = "undefined"
    /\ hostBound = FALSE
    /\ guestBound = FALSE
    /\ shareWorkspace \in BOOLEAN
    /\ globalenv = "e1"
    /\ tasks = <<>>
    /\ pending = <<>>
    /\ events = 0
    /\ out = <<>>
    /\ eff = <<>>
    /\ last = Label("init", <<>>, Void)
    /\ InitView

Task(kind, g, cont) == [kind |-> kind, gen |-> g, cont |-> cont]

\* initLiveShare, the part after `await LiveSessionListener()`: it runs when
\* the listener run of the activation returns without throwing
InitTail(cont, threw, live) ==
    IF cont = "init" /\ ~threw
    THEN /\ isGuestSession' = (IF live /\ role = "Guest" THEN "true" ELSE "false")
         /\ retryCmd' = ~(live /\ role = "Guest")
    ELSE UNCHANGED tailVars

InitTailEff(cont, threw, live) ==
    IF cont = "init" /\ ~threw
    THEN IF live /\ role = "Guest" THEN << <<"initGuest", 0>> >>
         ELSE << <<"initTreeView", 0>> >>
    ELSE <<>>

\* LiveSessionListener up to its first await: new service objects, then the
\* race between vsls.getApi() and the timeout
ListenerBegin(cont) ==
    /\ gen < MaxListen
    /\ Len(tasks) < MaxTasks
    /\ gen' = gen + 1
    /\ hostStarted' = FALSE
    /\ guestStarted' = FALSE
    /\ tasks' = Append(tasks, Task("listen", gen + 1, cont))
    /\ out' = <<>>
    /\ eff' = <<>>
    /\ UNCHANGED << platformVars, liveSession, aborted, listeners, tailVars,
                    chanVars, sessionVars, viewVars, pending >>

\* an initLiveShare that does not test enableSessionWatcher
InitLiveShare_always ==
    /\ ~initCalled
    /\ initCalled' = TRUE
    /\ last' = Label("initLiveShare", <<>>, Void)
    /\ ListenerBegin("init")

\* initLiveShare
InitLiveShare ==
    /\ ~initCalled
    /\ initCalled' = TRUE
    /\ last' = Label("initLiveShare", <<>>, Void)
    /\ IF enableSessionWatcher
       THEN ListenerBegin("init")
       ELSE /\ out' = <<>>
            /\ eff' = <<>>
            /\ UNCHANGED << platformVars, liveSession, aborted, listeners,
                            tailVars, objVars, chanVars, sessionVars, viewVars, tasks,
                            pending >>

\* the command r.liveShare.retry
Retry ==
    /\ retryCmd
    /\ ListenerBegin("retry")
    /\ last' = Label("retry", <<>>, Void)
    /\ UNCHANGED initCalled

\* a role check that starts the Host Service for every role
StartTask_hostAlways(r, cont) == << Task("hostStart", gen, cont) >>

\* the call a role starts with, up to its await on the platform
StartTask(r, cont) ==
    IF r = "Guest" THEN << Task("guestStart", gen, cont) >>
    ELSE << Task("hostStart", gen, cont) >>

\* a run of LiveSessionListener that goes on after a lost race
Aborts_never(liveSessionStatus) == FALSE

\* LiveSessionListener: `if (!liveSessionStatus) { ...; return; }`
Aborts(liveSessionStatus) == ~liveSessionStatus

\* LiveSessionListener after the race: aborted on timeout, else the listener is
\* subscribed and the service of the current role is started
ListenerResolve(i, api) ==
    /\ i \in 1..Len(tasks)
    /\ tasks[i].kind = "listen"
    /\ aborted' = ~api
    /\ IF Aborts(api)
       THEN /\ tasks' = RemoveAt(tasks, i)
            /\ InitTail(tasks[i].cont, FALSE, liveSession)
            /\ eff' = InitTailEff(tasks[i].cont, FALSE, liveSession)
            /\ UNCHANGED << liveSession, listeners >>
       ELSE /\ liveSession' = TRUE
            /\ listeners' = listeners + 1
            /\ IF role = "None"
               THEN /\ tasks' = RemoveAt(tasks, i)
                    /\ InitTail(tasks[i].cont, FALSE, TRUE)
                    /\ eff' = InitTailEff(tasks[i].cont, FALSE, TRUE)
               ELSE /\ tasks' = RemoveAt(tasks, i) \o StartTask(role, tasks[i].cont)
                    /\ eff' = <<>>
                    /\ UNCHANGED tailVars
    /\ out' = <<>>
    /\ last' = Label("LiveSessionListener", <<api>>, Void)
    /\ UNCHANGED << platformVars, initCalled, objVars, chanVars, sessionVars, viewVars,
                    pending >>

\* a cleanup that stops the Host Service whether or not it is started
HandlerTask_unguarded(r) ==
    IF r = "None" THEN << Task("stop", gen, "event") >>
    ELSE IF r \in {"Guest", "Host"} THEN StartTask(r, "event")
    ELSE <<>>

\* a handler whose default case starts the Host Service, as the switch of the
\* initial role check does
HandlerTask_defaultHost(r) ==
    IF r = "None"
    THEN IF hostStarted THEN << Task("stop", gen, "event") >> ELSE <<>>
    ELSE StartTask(r, "event")

\* the onDidChangeSession handler up to its await, for one subscription
HandlerTask(r) ==
    IF r = "None"
    THEN IF hostStarted THEN << Task("stop", gen, "event") >> ELSE <<>>
    ELSE IF r \in {"Guest", "Host"} THEN StartTask(r, "event")
    ELSE <<>>

RECURSIVE Handlers(_, _)
Handlers(r, n) == IF n = 0 THEN <<>> ELSE HandlerTask(r) \o Handlers(r, n - 1)

\* one call of sessionCleanup for each subscription
RECURSIVE CleanupEff(_)
CleanupEff(n) == IF n = 0 THEN <<>> ELSE << <<"sessionCleanup", 0>> >> \o CleanupEff(n - 1)

\* the platform changes the session role and fires onDidChangeSession: every
\* subscribed handler runs up to its first await
RoleChange(r) ==
    /\ events < MaxEvents
    /\ Len(tasks) + Len(Handlers(r, listeners)) <= MaxTasks
    /\ role' = r
    /\ events' = events + 1
    /\ tasks' = tasks \o Handlers(r, listeners)
    /\ out' = <<>>
    /\ eff' = (IF r = "None" THEN CleanupEff(listeners) ELSE <<>>)
    /\ last' = Label("roleChange", <<r>>, Void)
    /\ pending' = (IF r = "None" THEN disposeChannel(pending) ELSE pending)
    /\ UNCHANGED << enableSessionWatcher, listenVars, tailVars, objVars,
                    chanVars, sessionVars, viewVars >>

\* ---------------------------------------------------------------- services
\* a start that marks the service started whatever the platform gave
startedAfter_always(svc, started) == TRUE

\* startService: `if (service) { this._isStarted = true; ...` with svc the
\* value just assigned to `service` and started the flag before
startedAfter(svc, started) == IF svc \in Channels THEN TRUE ELSE started

\* a start that binds no handler
bindHostEff_skipped(svc) == <<>>

\* HostService.startService, the loop `for (const command in Commands.host)`
\* binding every entry with onRequest on the channel svc just obtained
bindHostEff(svc) == IF svc \in Channels THEN << <<"bindHost", 0>> >> ELSE <<>>

\* HostService.startService after `await liveSession.shareService(...)`, then
\* the rest of its caller. res is what the platform gave: "shared" (a channel),
\* "null" or "reject"
HostStartDone(i, res) ==
    /\ i \in 1..Len(tasks)
    /\ tasks[i].kind = "hostStart"
    /\ res \in {"shared", "null", "reject"}
    /\ tasks' = RemoveAt(tasks, i)
    /\ service' = (IF res = "reject" THEN service ELSE res)
    /\ hostStarted' = (IF res # "reject" /\ tasks[i].gen = gen
                       THEN startedAfter(res, hostStarted) ELSE hostStarted)
    /\ hostBound' = (IF bindHostEff(res) # <<>> THEN TRUE ELSE hostBound)
    /\ InitTail(tasks[i].cont, res = "reject", liveSession)
    /\ eff' = (IF res = "null" THEN << <<"error", 0>> >> ELSE <<>>)
              \o bindHostEff(res)
              \o (IF tasks[i].cont = "event" /\ res # "reject"
                  THEN << <<"refresh", 0>> >> ELSE <<>>)
              \o InitTailEff(tasks[i].cont, res = "reject", liveSession)
    /\ out' = <<>>
    /\ last' = Label("HostService.startService", <<res, tasks[i].cont>>,
                     IF res = "reject" THEN Rejected ELSE Void)
    /\ UNCHANGED << platformVars, listenVars, gen, guestStarted, guestBound,
                    sessionVars, viewVars, pending >>

\* GuestService.startService after `await liveSession.getSharedService(...)`,
\* then the rest of its caller. res is "proxy" (a channel), "null" or "reject";
\* view is what the window shows at that moment
GuestStartDone(i, res, view) ==
    /\ i \in 1..Len(tasks)
    /\ tasks[i].kind = "guestStart"
    /\ res \in {"proxy", "null", "reject"}
    /\ view \in TerminalViews
    /\ tasks' = RemoveAt(tasks, i)
    /\ service' = (IF res = "reject" THEN service ELSE res)
    /\ guestStarted' = (IF res # "reject" /\ tasks[i].gen = gen
                        THEN startedAfter(res, guestStarted) ELSE guestStarted)
    /\ LET ok == res = "proxy"
           threw == res = "reject" \/ requestAttachThrows(ok, view)
       IN /\ out' = requestAttachOut(ok, res)
          /\ guestBound' = (IF ok /\ ~threw THEN TRUE ELSE guestBound)
          /\ InitTail(tasks[i].cont, threw, liveSession)
          /\ eff' = (IF res = "null" THEN << <<"error", 0>> >> ELSE <<>>)
                    \o (IF ok THEN << <<"attach", 0>> >> ELSE <<>>)
                    \o requestAttachEff(ok, view)
                    \o (IF ok /\ ~threw THEN << <<"bindGuest", 0>> >> ELSE <<>>)
                    \o InitTailEff(tasks[i].cont, threw, liveSession)
          /\ last' = Label("GuestService.startService", <<res, view, tasks[i].cont>>,
                           IF threw THEN Rejected ELSE Void)
    /\ UNCHANGED << platformVars, listenVars, gen, hostStarted, hostBound,
                    sessionVars, viewVars, pending >>

\* HostService.stopService after its await: `service = null`
stopServiceSets(started, svc) == "null"

\* a direct call of HostService.stopService, up to
\* `await liveSession.unshareService(...)`
StopService ==
    /\ gen > 0
    /\ Len(tasks) < MaxTasks
    /\ tasks' = Append(tasks, Task("stop", gen, "call"))
    /\ out' = <<>>
    /\ eff' = <<>>
    /\ last' = Label("stopService", <<>>, Void)
    /\ UNCHANGED << platformVars, listenVars, tailVars, objVars, chanVars,
                    sessionVars, viewVars, pending >>

\* HostService.stopService after `await liveSession.unshareService(...)`. Called
\* by sessionCleanup (cont "event"), the loop over browserDisposables (bs), the
\* refresh and the loop over disposables, which is always empty, follow
StopDone(i, res, bs) ==
    /\ i \in 1..Len(tasks)
    /\ tasks[i].kind = "stop"
    /\ res \in {"ok", "reject"}
    /\ bs \in BrowserLists
    /\ tasks[i].cont = "call" => bs = <<>>
    /\ tasks' = RemoveAt(tasks, i)
    /\ LET op == IF tasks[i].cont = "call" THEN "HostService.stopService"
                 ELSE "sessionCleanup"
           cleanup == tasks[i].cont # "call"
       IN IF res = "reject"
          THEN /\ eff' = <<>>
               /\ last' = Label(op, <<res, bs>>, Rejected)
               /\ UNCHANGED << service, hostStarted, pending >>
          ELSE /\ service' = stopServiceSets(hostStarted, service)
               /\ pending' = (IF service = "shared" THEN disposeChannel(pending)
                              ELSE pending)
               /\ hostStarted' = (IF tasks[i].gen = gen THEN FALSE ELSE hostStarted)
               /\ eff' = (IF cleanup THEN cleanupEff(bs)
                          ELSE << <<"stopService", 0>> >>)
               /\ last' = Label(op, <<res, bs>>,
                                IF cleanup /\ DisposeThrows(bs) THEN Rejected ELSE Void)
    /\ out' = <<>>
    /\ UNCHANGED << platformVars, listenVars, tailVars, gen, guestStarted,
                    hostBound, guestBound, sessionVars, viewVars >>

\* ---------------------------------------------------------------- calls
\* what a call of a service method leaves alone
CallFrame ==
    UNCHANGED << platformVars, listenVars, tailVars, objVars, chanVars,
                 sessionVars, viewVars, tasks >>

NotifyGlobalenv(hostEnv) ==
    /\ gen > 0
    /\ out' = notifyGlobalenv(hostEnv)
    /\ eff' = <<>>
    /\ last' = Label("notifyGlobalenv", <<hostEnv>>, Void)
    /\ UNCHANGED pending
    /\ CallFrame

NotifyRequest(file, force) ==
    /\ gen > 0
    /\ out' = notifyRequest(file, force)
    /\ eff' = <<>>
    /\ last' = Label("notifyRequest", <<file, force>>, Void)
    /\ UNCHANGED pending
    /\ CallFrame

NotifyPlot(file) ==
    /\ gen > 0
    /\ out' = notifyPlot(file)
    /\ eff' = <<>>
    /\ last' = Label("notifyPlot", <<file>>, Void)
    /\ UNCHANGED pending
    /\ CallFrame

OrderGuestDetach ==
    /\ gen > 0
    /\ out' = orderGuestDetach
    /\ eff' = <<>>
    /\ last' = Label("orderGuestDetach", <<>>, Void)
    /\ UNCHANGED pending
    /\ CallFrame

RequestAttach(view) ==
    /\ gen > 0
    /\ view \in TerminalViews
    /\ out' = requestAttachOut(guestStarted, service)
    /\ eff' = requestAttachEff(guestStarted, view)
    /\ last' = Label("requestAttach", <<view>>,
                     IF requestAttachThrows(guestStarted, view)
                     THEN Rejected ELSE Void)
    /\ UNCHANGED pending
    /\ CallFrame

RequestRunTextInTerm(text) ==
    /\ gen > 0
    /\ out' = requestRunTextInTerm(text)
    /\ eff' = <<>>
    /\ last' = Label("requestRunTextInTerm", <<text>>, Void)
    /\ UNCHANGED pending
    /\ CallFrame

\* an awaited request: the caller is suspended until the reply
Await(op, encoding) == [op |-> op, encoding |-> encoding, failed |-> FALSE]

\* how an awaited request that was handed to no channel ends: request()
\* resolves with no content or rejects, and the caller returns no content
NoChannelEnds == {NoValue, Rejected}

\* GuestService.requestFileContent up to its await; when the service is not
\* started it returns undefined at once
RequestFileContent(file, encoding, ends) ==
    /\ gen > 0
    /\ Len(pending) < MaxPending
    /\ ends \in NoChannelEnds
    /\ out' = requestFileContentOut(file, encoding)
    /\ eff' = <<>>
    /\ IF requestFileContentOut(file, encoding) = <<>>
       THEN /\ ends = NoValue
            /\ UNCHANGED pending
            /\ last' = Label("requestFileContent", <<file, encoding>>, NoValue)
       ELSE IF service \in Channels
       THEN /\ ends = NoValue
            /\ pending' = Append(pending, Await("requestFileContent", encoding))
            /\ last' = Label("requestFileContent", <<file, encoding>>, Void)
       ELSE /\ UNCHANGED pending
            /\ last' = Label("requestFileContent", <<file, encoding>>, ends)
    /\ CallFrame

\* GuestService.requestHelpContent up to its await
RequestHelpContent(file, ends) ==
    /\ gen > 0
    /\ Len(pending) < MaxPending
    /\ ends \in NoChannelEnds
    /\ out' = requestHelpContentOut(file)
    /\ eff' = <<>>
    /\ IF service \in Channels
       THEN /\ ends = NoValue
            /\ pending' = Append(pending, Await("requestHelpContent", "undefined"))
            /\ last' = Label("requestHelpContent", <<file>>, Void)
       ELSE /\ UNCHANGED pending
            /\ last' = Label("requestHelpContent", <<file>>, ends)
    /\ CallFrame

\* the reply to an awaited request arrives with content and the suspended call
\* returns
Reply(i, content) ==
    /\ i \in 1..Len(pending)
    /\ ~pending[i].failed
    /\ content \in ReplyValues
    /\ pending' = RemoveAt(pending, i)
    /\ out' = <<>>
    /\ eff' = (IF pending[i].op = "requestFileContent"
                  /\ requestFileContentRet(pending[i].encoding, content) = NoValue
               THEN << <<"error", 0>> >> ELSE <<>>)
    /\ last' = Label("reply", <<pending[i].op, pending[i].encoding, content>>,
                     IF pending[i].op = "requestFileContent"
                     THEN requestFileContentRet(pending[i].encoding, content)
                     ELSE requestHelpContentRet(content))
    /\ CallFrame

\* a caller that swallows the failure of its request and returns nothing
onRequestRejected_swallowed(op) == NoValue

\* requestFileContent and requestHelpContent, `await request(...)` outside any
\* try: when request() rejects, the call op rejects
onRequestRejected(op) == Rejected

\* the caller of a request that was settled with a failure resumes
Fail(i) ==
    /\ i \in 1..Len(pending)
    /\ pending[i].failed
    /\ pending' = RemoveAt(pending, i)
    /\ out' = <<>>
    /\ eff' = <<>>
    /\ last' = Label("settle", <<pending[i].op, pending[i].encoding>>,
                     onRequestRejected(pending[i].op))
    /\ CallFrame

\* ---------------------------------------------------------------- environment
\* the command r.liveShare.toggle flips shareWorkspace
ToggleShareWorkspace ==
    /\ shareWorkspace' = ~shareWorkspace
    /\ out' = <<>>
    /\ eff' = <<>>
    /\ last' = Label("toggle", <<>>, Void)
    /\ UNCHANGED << platformVars, listenVars, tailVars, objVars, chanVars,
                    globalenv, tasks, pending, viewVars >>

\* the session watcher replaces globalenv
SetGlobalenv(e) ==
    /\ e # globalenv
    /\ globalenv' = e
    /\ out' = <<>>
    /\ eff' = <<>>
    /\ last' = Label("globalenv", <<e>>, Void)
    /\ UNCHANGED << platformVars, listenVars, tailVars, objVars, chanVars,
                    shareWorkspace, tasks, pending, viewVars >>

Next ==
    \/ InitLiveShare
    \/ Retry
    \/ \E i \in 1..MaxTasks, api \in BOOLEAN : ListenerResolve(i, api)
    \/ \E r \in Roles : RoleChange(r)
    \/ \E i \in 1..MaxTasks, res \in {"shared", "null", "reject"} : HostStartDone(i, res)
    \/ \E i \in 1..MaxTasks, res \in {"proxy", "null", "reject"}, view \in TerminalViews :
          GuestStartDone(i, res, view)
    \/ \E i \in 1..MaxTasks, res \in {"ok", "reject"}, bs \in BrowserLists :
          StopDone(i, res, bs)
    \/ \E e \in Envs : NotifyGlobalenv(e)
    \/ \E f \in Files, force \in BOOLEAN : NotifyRequest(f, force)
    \/ \E f \in Files : NotifyPlot(f)
    \/ OrderGuestDetach
    \/ \E view \in TerminalViews : RequestAttach(view)
    \/ \E t \in Texts : RequestRunTextInTerm(t)
    \/ \E f \in Files, enc \in Encodings, ends \in NoChannelEnds :
          RequestFileContent(f, enc, ends)
    \/ \E f \in Files, ends \in NoChannelEnds : RequestHelpContent(f, ends)
    \/ \E i \in 1..MaxPending, c \in ReplyValues : Reply(i, c)
    \/ \E i \in 1..MaxPending : Fail(i)
    \/ ToggleShareWorkspace
    \/ \E e \in Envs : SetGlobalenv(e)

Spec == Init /\ [][Next]_vars

\* the life cycle of the services alone: role detection, role-change events,
\* the starts and stops of the services, and HostService.stopService called
\* directly, without the notify and request calls (which change none of the
\* variables these actions read)
NextLife ==
    \/ InitLiveShare
    \/ Retry
    \/ \E i \in 1..MaxTasks, api \in BOOLEAN : ListenerResolve(i, api)
    \/ \E r \in Roles : RoleChange(r)
    \/ \E i \in 1..MaxTasks, res \in {"shared", "null", "reject"} : HostStartDone(i, res)
    \/ \E i \in 1..MaxTasks, res \in {"proxy", "null", "reject"}, view \in TerminalViews :
          GuestStartDone(i, res, view)
    \/ \E i \in 1..MaxTasks, res \in {"ok", "reject"}, bs \in BrowserLists :
          StopDone(i, res, bs)
    \/ StopService

SpecLife == Init /\ [][NextLife]_vars

\* the life cycle together with the awaited requests of the Guest Service. The
\* continuation of a settled promise is always scheduled: weak fairness of Fail
NextRequests ==
    \/ NextLife
    \/ \E f \in Files, enc \in Encodings, ends \in NoChannelEnds :
          RequestFileContent(f, enc, ends)
    \/ \E f \in Files, ends \in NoChannelEnds : RequestHelpContent(f, ends)
    \/ \E i \in 1..MaxPending, c \in ReplyValues : Reply(i, c)
    \/ \E i \in 1..MaxPending : Fail(i)

SpecRequests ==
    Init /\ [][NextRequests]_vars /\ WF_vars(\E i \in 1..MaxPending : Fail(i))

\* ---------------------------------------------------------------- HttpgdManager
\* the frame of a step of the plot viewers or of the help panel
ViewFrame == UNCHANGED shareVars

\* show() and setContextValues() of the viewer v call registerActiveViewer
RegisterActiveViewer(v) ==
    /\ Len(recentlyActiveViewers) < MaxRecent
    /\ recentlyActiveViewers' = registerActiveViewer(recentlyActiveViewers, v)
    /\ last' = Label("registerActiveViewer", << v >>, Void)
    /\ ViewFrame
    /\ UNCHANGED << plotVars, resizeVars, helpVars >>

\* ---------------------------------------------------------------- HttpgdViewer
\* refreshPlots up to `await this.api.getPlotIds()`: the call remembers the
\* number of plots and is suspended; it is now the most recent request
beginRefresh(rs, ps) ==
    Append([k \in 1..Len(rs) |-> [rs[k] EXCEPT !.newest = FALSE]],
           [stage |-> "ids", nPlots |-> Len(ps), ids |-> <<>>, newest |-> TRUE])

\* R draws a plot: the server holds one more id and the viewer's
\* onPlotsChange callback calls refreshPlots
Draw ==
    /\ drawn < MaxPlots
    /\ Len(refreshes) < MaxRefreshes
    /\ drawn' = drawn + 1
    /\ serverIds' = Append(serverIds, drawn + 1)
    /\ refreshes' = beginRefresh(refreshes, plots)
    /\ last' = Label("onPlotsChange", << drawn + 1 >>, Void)
    /\ ViewFrame
    /\ UNCHANGED << plots, hiddenPlots, activePlot, latestIds, managerVars,
                    resizeVars, helpVars >>

\* the onConnectionChange callback calls refreshPlots
ConnectionChange ==
    /\ Len(refreshes) < MaxRefreshes
    /\ refreshes' = beginRefresh(refreshes, plots)
    /\ last' = Label("onConnectionChange", <<>>, Void)
    /\ ViewFrame
    /\ UNCHANGED << serverIds, drawn, plots, hiddenPlots, activePlot, latestIds,
                    managerVars, resizeVars, helpVars >>

\* closePlot(id): the server drops the plot, then refreshPlots is called
\* (id undefined stands for the active plot)
ClosePlot(id) ==
    LET target == IF id = 0 THEN activePlot ELSE id
    IN  /\ target \in Range(serverIds)
        /\ Len(refreshes) < MaxRefreshes
        /\ serverIds' = SelectSeq(serverIds, LAMBDA p : p # target)
        /\ refreshes' = beginRefresh(refreshes, plots)
        /\ last' = Label("closePlot", << id >>, Void)
        /\ ViewFrame
        /\ UNCHANGED << drawn, plots, hiddenPlots, activePlot, latestIds,
                        managerVars, resizeVars, helpVars >>

\* getPlotIds answers the suspended call i: the list is filtered with
\* hiddenPlots as it is now; when every plot of the list is held already the
\* call runs to its end, else it is suspended again on the plot contents
IdsArrive(i) ==
    /\ i \in 1..Len(refreshes)
    /\ refreshes[i].stage = "ids"
    /\ LET ids == Visible(serverIds, hiddenPlots)
       IN  /\ latestIds' = IF refreshes[i].newest THEN serverIds ELSE latestIds
           /\ IF needsContent(ids, plots, activePlot)
              THEN /\ refreshes' = [refreshes EXCEPT ![i].stage = "content", ![i].ids = ids]
                   /\ last' = Label("getPlotIds", <<>>, ids)
                   /\ UNCHANGED << plots, activePlot >>
              ELSE /\ refreshes' = RemoveAt(refreshes, i)
                   /\ plots' = ids
                   /\ activePlot' = activeAfterRefresh(ids, refreshes[i].nPlots, activePlot)
                   /\ last' = Label("refreshPlots", << refreshes[i].newest >>, ids)
    /\ ViewFrame
    /\ UNCHANGED << serverIds, drawn, hiddenPlots, managerVars, resizeVars, helpVars >>

\* the plot contents of the suspended call i have arrived: `this.plots =
\* await Promise.all(newPlots)` and the rest of refreshPlots
ContentArrive(i) ==
    /\ i \in 1..Len(refreshes)
    /\ refreshes[i].stage = "content"
    /\ refreshes' = RemoveAt(refreshes, i)
    /\ plots' = refreshes[i].ids
    /\ activePlot' = activeAfterRefresh(refreshes[i].ids, refreshes[i].nPlots, activePlot)
    /\ last' = Label("refreshPlots", << refreshes[i].newest >>, refreshes[i].ids)
    /\ ViewFrame
    /\ UNCHANGED << serverIds, drawn, hiddenPlots, latestIds, managerVars,
                    resizeVars, helpVars >>

\* hidePlot(id), id undefined standing for the active plot
HidePlot(id) ==
    LET target == IF id = 0 THEN activePlot ELSE id
        tmpIndex == activeIndex(plots, activePlot)
        hidden == hiddenPlots \cup {target}
        shown == Visible(plots, hidden)
    IN  /\ IF target # 0
           THEN /\ hiddenPlots' = hidden
                /\ plots' = shown
                /\ activePlot' = IF target = activePlot
                                 THEN setActiveIndex(shown, tmpIndex)
                                 ELSE activePlot
           ELSE UNCHANGED << hiddenPlots, plots, activePlot >>
        /\ last' = Label("hidePlot", << id >>, Void)
        /\ ViewFrame
        /\ UNCHANGED << serverIds, drawn, refreshes, latestIds, managerVars,
                        resizeVars, helpVars >>

\* resetPlots
ResetPlots ==
    /\ Len(refreshes) < MaxRefreshes
    /\ hiddenPlots' = {}
    /\ refreshes' = beginRefresh(refreshes, plots)
    /\ last' = Label("resetPlots", <<>>, Void)
    /\ ViewFrame
    /\ UNCHANGED << serverIds, drawn, plots, activePlot, latestIds, managerVars,
                    resizeVars, helpVars >>

\* focusPlot(id), 0 for a call without id
FocusPlot(id) ==
    /\ activePlot' = id
    /\ last' = Label("focusPlot", << id >>, Void)
    /\ ViewFrame
    /\ UNCHANGED << serverIds, drawn, plots, hiddenPlots, refreshes, latestIds,
                    managerVars, resizeVars, helpVars >>

\* nextPlot(last); the label keeps the index the call started from
NextPlot(toLast) ==
    /\ activePlot' = setActiveIndex(plots, IF toLast THEN Len(plots) - 1
                                           ELSE activeIndex(plots, activePlot) + 1)
    /\ last' = Label("nextPlot", << toLast >>, activeIndex(plots, activePlot))
    /\ ViewFrame
    /\ UNCHANGED << serverIds, drawn, plots, hiddenPlots, refreshes, latestIds,
                    managerVars, resizeVars, helpVars >>

\* prevPlot(first)
PrevPlot(toFirst) ==
    /\ activePlot' = setActiveIndex(plots, IF toFirst THEN 0
                                           ELSE activeIndex(plots, activePlot) - 1)
    /\ last' = Label("prevPlot", << toFirst >>, activeIndex(plots, activePlot))
    /\ ViewFrame
    /\ UNCHANGED << serverIds, drawn, plots, hiddenPlots, refreshes, latestIds,
                    managerVars, resizeVars, helpVars >>

\* the webview posts a resize message: dropped while resizeBusy, else
\* handleResize runs up to `await this.api.getPlotContent(...)`
ResizeMessage ==
    /\ IF resizeBusy
       THEN /\ last' = Label("resize", <<>>, "Resize busy")
            /\ UNCHANGED resizeVars
       ELSE /\ resizeBusy' = TRUE
            /\ resizing' = TRUE
            /\ last' = Label("resize", <<>>, "handleResize")
    /\ ViewFrame
    /\ UNCHANGED << plotVars, managerVars, helpVars >>

\* getPlotContent settles the suspended handleResize: the rest of the
\* function runs only when the promise is fulfilled
ResizeDone(ok) ==
    /\ resizing
    /\ resizing' = FALSE
    /\ resizeBusy' = IF ok THEN FALSE ELSE resizeBusy
    /\ last' = Label("handleResize", <<>>, IF ok THEN Void ELSE Rejected)
    /\ ViewFrame
    /\ UNCHANGED << plotVars, managerVars, helpVars >>

\* ---------------------------------------------------------------- RHelp
\* getHelpFileForPath(requestPath, modify): the help server answers within
\* the step; the caller gets a copy of the cache entry
GetHelpFileForPath(path, modify) ==
    LET entry == cacheAfter(cachedHelpFiles, path, modify, enableSyntaxHighlighting)
    IN  /\ cachedHelpFiles' = [cachedHelpFiles EXCEPT ![path] = entry]
        /\ last' = Label("getHelpFileForPath", << path, modify >>, entry)
        /\ ViewFrame
        /\ UNCHANGED << enableSyntaxHighlighting, managerVars, plotVars, resizeVars >>

\* clearCachedFiles(path)
ClearCachedFiles(path) ==
    /\ cachedHelpFiles[path] # Absent
    /\ cachedHelpFiles' = [cachedHelpFiles EXCEPT ![path] = Absent]
    /\ last' = Label("clearCachedFiles", << path >>, Void)
    /\ ViewFrame
    /\ UNCHANGED << enableSyntaxHighlighting, managerVars, plotVars, resizeVars >>

\* the user changes the setting helpPanel.enableSyntaxHighlighting
SetSyntaxHighlighting(on) ==
    /\ on # enableSyntaxHighlighting
    /\ enableSyntaxHighlighting' = on
    /\ last' = Label("enableSyntaxHighlighting", << on >>, Void)
    /\ ViewFrame
    /\ UNCHANGED << cachedHelpFiles, managerVars, plotVars, resizeVars >>

\* ---------------------------------------------------------------- specifications
\* the plot viewers and the help panel run with the Live Share part idle
InitIdle == Init /\ ~enableSessionWatcher /\ ~shareWorkspace

NextManager == \E v \in Viewers : RegisterActiveViewer(v)

SpecManager == InitIdle /\ [][NextManager]_vars

\* one viewer and its plot server
NextViewer ==
    \/ Draw
    \/ ConnectionChange
    \/ \E id \in 0..MaxPlots : ClosePlot(id)
    \/ \E i \in 1..MaxRefreshes : IdsArrive(i)
    \/ \E i \in 1..MaxRefreshes : ContentArrive(i)
    \/ \E id \in 0..MaxPlots : HidePlot(id)
    \/ ResetPlots
    \/ \E id \in 0..MaxPlots : FocusPlot(id)
    \/ \E toLast \in BOOLEAN : NextPlot(toLast)
    \/ \E toFirst \in BOOLEAN : PrevPlot(toFirst)
    \/ ResizeMessage
    \/ \E ok \in BOOLEAN : ResizeDone(ok)

SpecViewer == InitIdle /\ [][NextViewer]_vars

\* the help panel
NextHelp ==
    \/ \E path \in HelpPaths, modify \in BOOLEAN : GetHelpFileForPath(path, modify)
    \/ \E path \in HelpPaths : ClearCachedFiles(path)
    \/ \E on \in BOOLEAN : SetSyntaxHighlighting(on)

SpecHelp == InitIdle /\ [][NextHelp]_vars

\* ---------------------------------------------------------------- claims
GuestRequestOps ==
    {"requestAttach", "requestRunTextInTerm", "requestFileContent", "requestHelpContent"}
OtherGuestCommands ==
    {"run-text-in-term", "get-file-content", "get-help-file-content"}
OnChannel(m) == m.chan \in Channels
Disposed(i) == \E k \in 1..Len(eff) : eff[k] = <<"dispose", i>>

\* C1: in every reachable state at most one of HostService.isStarted() and
\* GuestService.isStarted() is true.
C1_AtMostOneStarted == ~(hostStarted /\ guestStarted)

\* C2: when the last role-change event is None and every handler has run to
\* its end, no service is started and `service` holds no channel.
C2_CleanAfterNone ==
    (events > 0 /\ role = "None" /\ tasks = <<>>)
        => (~hostStarted /\ ~guestStarted /\ service \notin Channels)

\* C3: a Guest Service method called while the Guest Service is not started
\* hands no request to a channel.
C3_StoppedGuestSilent ==
    (last.op \in GuestRequestOps /\ ~guestStarted)
        => \A k \in 1..Len(out) : ~OnChannel(out[k])

\* C4: on a started Host Service with the workspace shared, notifyRequest(file,
\* true) sends request-update (file, true), then env-update with the current
\* globalenv, and nothing else.
C4_NotifyRequestOrder ==
    (last.op = "notifyRequest" /\ last.args[2] = TRUE /\ hostStarted /\ shareWorkspace)
        => out = << [cmd |-> "request-update", args |-> <<last.args[1], TRUE>>,
                     chan |-> service],
                    [cmd |-> "env-update", args |-> <<globalenv>>, chan |-> service] >>

C4_Witness ==
    /\ last.op = "notifyRequest" /\ last.args[2] = TRUE
    /\ hostStarted /\ shareWorkspace /\ service = "shared"
    /\ globalenv = "e2" /\ Len(out) = 2

\* C5: requestFileContent without encoding returns a byte buffer or nothing,
\* and with an encoding a text or nothing, whatever the host replies.
C5_FileContentTyped ==
    (last.op = "reply" /\ last.args[1] = "requestFileContent")
        => IF last.args[2] = "undefined"
           THEN last.ret.type \in {"buffer", "undefined"}
           ELSE last.ret.type \in {"string", "undefined"}

\* C6: with shareWorkspace false, notifyGlobalenv, notifyRequest and notifyPlot
\* send no message, started or not.
C6_UnsharedSilent ==
    (last.op \in {"notifyGlobalenv", "notifyRequest", "notifyPlot"} /\ ~shareWorkspace)
        => out = <<>>

C6_Witness ==
    /\ last.op \in {"notifyGlobalenv", "notifyRequest", "notifyPlot"}
    /\ ~shareWorkspace /\ hostStarted /\ service = "shared"

\* C7: orderGuestDetach sends exactly one order-detach when the Host Service is
\* started, shareWorkspace true or false, and nothing when it is not started.
C7_DetachOnStartedOnly ==
    last.op = "orderGuestDetach"
        => IF hostStarted
           THEN out = << [cmd |-> "order-detach", args |-> <<>>, chan |-> service] >>
           ELSE out = <<>>

C7_Witness ==
    /\ last.op = "orderGuestDetach" /\ hostStarted /\ ~shareWorkspace
    /\ service = "shared" /\ Len(out) = 1

\* the run the scenarios are about: one run of LiveSessionListener, the role
\* None at first and then at most one role-change event, to role r
Scenario(r) == gen = 1 /\ (events = 0 \/ (events = 1 /\ role = r))

\* C8: after None then Host, with the Host Service started and the workspace
\* shared, notifyPlot(f) makes a connected guest receive exactly one
\* plot-update with argument f.
C8_PlotReachesGuest ==
    (Scenario("Host") /\ events = 1 /\ hostStarted /\ shareWorkspace
     /\ last.op = "notifyPlot")
        => GuestReceived = << [cmd |-> "plot-update", args |-> <<last.args[1]>>,
                               chan |-> "shared"] >>

C8_Witness ==
    /\ Scenario("Host") /\ events = 1 /\ hostStarted /\ shareWorkspace
    /\ last.op = "notifyPlot" /\ last.args[1] = "f2" /\ Len(GuestReceived) = 1

\* C9: after None then Guest, the start of the Guest Service sends exactly one
\* attach-guest, no second start follows, and until that start no other guest
\* request reaches a channel.
C9_AttachFirst ==
    /\ (last.op = "GuestService.startService" /\ last.args[1] = "proxy")
          => out = << [cmd |-> "attach-guest", args |-> <<>>, chan |-> "proxy"] >>
    /\ (Scenario("Guest") /\ guestStarted)
          => \A k \in 1..Len(tasks) : tasks[k].kind # "guestStart"
    /\ (Scenario("Guest") /\ ~guestStarted)
          => \A k \in 1..Len(out) :
                ~(OnChannel(out[k]) /\ out[k].cmd \in OtherGuestCommands)

C9_Witness ==
    /\ Scenario("Guest") /\ events = 1 /\ guestStarted
    /\ last.op = "GuestService.startService" /\ Len(out) = 1

\* C10: when cleanup runs with the Host Service started, dispose() is called
\* on every entry of browserDisposables, also after one that throws.
C10_AllBrowsersDisposed ==
    (last.op = "sessionCleanup" /\ last.args[1] = "ok")
        => \A i \in 1..Len(last.args[2]) : Disposed(i)

ListenPending == \E k \in 1..Len(tasks) : tasks[k].kind = "listen"

\* C11 as stated: once role detection has ended as aborted, no session-change
\* listener is subscribed and neither service is started in any later step.
C11_AbortIsFinal ==
    [][aborted => (listeners' = listeners /\ ~hostStarted' /\ ~guestStarted')]_vars

\* C11 as amended: a run of LiveSessionListener that loses the race ends as
\* aborted, subscribes no listener and starts no service; when no earlier run
\* subscribed a listener, no listener is subscribed and no service is started
\* for as long as LiveSessionListener is not run again.
C11_AbortedRunInert ==
    [][ /\ (last'.op = "LiveSessionListener" /\ last'.args[1] = FALSE)
            => /\ aborted' /\ listeners' = listeners
               /\ hostStarted' = hostStarted /\ guestStarted' = guestStarted
               /\ Len(tasks') < Len(tasks)
        /\ (aborted /\ listeners = 0 /\ ~ListenPending)
            => (listeners' = 0 /\ ~hostStarted' /\ ~guestStarted') ]_vars

C11_Witness ==
    /\ aborted /\ listeners = 0 /\ ~ListenPending
    /\ last.op = "roleChange" /\ role = "Host" /\ tasks = <<>>

HasEff(e, name) == \E k \in 1..Len(e) : e[k][1] = name

\* C12: a role-change event for the role whose service is already started
\* acquires no channel again, and a start that completes on a started service
\* binds no handler again and sends no second attach-guest.
C12_RestartIsNoOp ==
    [][ /\ (last'.op = "roleChange"
             /\ \/ (last'.args[1] = "Host" /\ hostStarted)
                \/ (last'.args[1] = "Guest" /\ guestStarted))
            => tasks' = tasks
        /\ (hostStarted /\ last'.op = "HostService.startService")
            => ~HasEff(eff', "bindHost")
        /\ (guestStarted /\ last'.op = "GuestService.startService")
            => (out' = <<>> /\ ~HasEff(eff', "bindGuest")) ]_vars

\* C13: a startService whose acquisition gives no channel leaves a stopped
\* service stopped, binds no handler, sends no attach-guest and logs an error.
C13_FailedStartStaysStopped ==
    [][ /\ (last'.op = "HostService.startService" /\ last'.args[1] = "null")
            => /\ ~hostStarted => ~hostStarted'
               /\ hostBound' = hostBound /\ ~HasEff(eff', "bindHost")
               /\ out' = <<>> /\ HasEff(eff', "error")
               /\ last'.ret = Void
        /\ (last'.op = "GuestService.startService" /\ last'.args[1] = "null")
            => /\ ~guestStarted => ~guestStarted'
               /\ guestBound' = guestBound /\ ~HasEff(eff', "bindGuest")
               /\ out' = <<>> /\ HasEff(eff', "error")
               /\ last'.ret = Void ]_vars

C13_Witness ==
    /\ last.op = "GuestService.startService" /\ last.args[1] = "null"
    /\ ~guestStarted /\ ~guestBound /\ HasEff(eff, "error") /\ role = "Guest"

\* the channel `service` holds, if any
Held(svc) == IF svc \in Channels THEN svc ELSE "none"

\* C14: a stopService that completes leaves the Host Service stopped and
\* `service` without a channel; completing on a Host Service that is already
\* stopped it changes nothing, and a channel the Guest Service holds stays.
C14_StopIdempotent ==
    [][ (last'.op = "HostService.stopService" /\ last'.args[1] = "ok")
            => /\ ~hostStarted'
               /\ hostStarted => Held(service') = "none"
               /\ ~hostStarted
                     => /\ Held(service') = Held(service)
                        /\ guestStarted' = guestStarted
                        /\ hostBound' = hostBound /\ guestBound' = guestBound ]_vars

\* C15: cleanup run while the Host Service is not started (so also when no
\* service was ever started) stops nothing, releases no channel, disposes and
\* refreshes nothing and raises no error: the None event changes nothing but the
\* role.
C15_CleanupNoOp ==
    [][ (last'.op = "roleChange" /\ last'.args[1] = "None" /\ ~hostStarted)
            => /\ tasks' = tasks /\ service' = service
               /\ hostStarted' = hostStarted /\ guestStarted' = guestStarted
               /\ hostBound' = hostBound /\ guestBound' = guestBound
               /\ \A k \in 1..Len(eff') : eff'[k] = <<"sessionCleanup", 0>>
               /\ last'.ret = Void ]_vars

C15_Witness ==
    /\ last.op = "roleChange" /\ role = "None" /\ gen = 1 /\ events = 1
    /\ listeners = 1 /\ eff = << <<"sessionCleanup", 0>> >> /\ tasks = <<>>

StopOps == {"sessionCleanup", "HostService.stopService"}
SomeFailed == \E k \in 1..Len(pending) : pending[k].failed
AllFailed(p) == \A k \in 1..Len(p) : p[k].failed

DisposalSettles ==
    /\ (last'.op = "roleChange" /\ last'.args[1] = "None")
        => (Len(pending') = Len(pending) /\ AllFailed(pending'))
    /\ (last'.op \in StopOps /\ last'.args[1] = "ok" /\ service = "shared")
        => (Len(pending') = Len(pending) /\ AllFailed(pending'))
    /\ (last'.op = "settle" /\ Len(pending') < Len(pending))
        => last'.ret = Rejected

C17_HelpContent ==
    /\ (last.op = "requestHelpContent" /\ guestStarted)
          => out = << [cmd |-> "get-help-file-content", args |-> <<last.args[1]>>,
                       chan |-> service] >>
    /\ (last.op = "reply" /\ last.args[1] = "requestHelpContent")
          => last.ret = (IF last.args[3].truthy THEN last.args[3] ELSE NoValue)

C17_Witness ==
    /\ last.op = "reply" /\ last.args[1] = "requestHelpContent" /\ guestStarted
    /\ last.args[3].type = "object" /\ last.ret = last.args[3]

\* the tasks a step added at the end of tasks
NewTasks == SubSeq(tasks', Len(tasks) + 1, Len(tasks'))
AllOfKind(ts, kind) == \A k \in 1..Len(ts) : ts[k].kind = kind

EventAction ==
    /\ last'.op = "roleChange"
          => /\ SubSeq(tasks', 1, Len(tasks)) = tasks
             /\ hostStarted' = hostStarted /\ guestStarted' = guestStarted
             /\ service' = service
             /\ CASE last'.args[1] = "None" ->
                        /\ eff' = CleanupEff(listeners)
                        /\ AllOfKind(NewTasks, "stop")
                  [] last'.args[1] = "Guest" ->
                        /\ eff' = <<>>
                        /\ Len(NewTasks) = listeners
                        /\ AllOfKind(NewTasks, "guestStart")
                  [] last'.args[1] = "Host" ->
                        /\ eff' = <<>>
                        /\ Len(NewTasks) = listeners
                        /\ AllOfKind(NewTasks, "hostStart")
                  [] OTHER -> (eff' = <<>> /\ NewTasks = <<>>)
    /\ (last'.op = "HostService.startService" /\ last'.args[2] = "event"
        /\ last'.ret = Void)
          => HasEff(eff', "refresh")

\* C18: each subscribed handler does exactly the action of the event's role:
\* None runs sessionCleanup; Guest begins the start of the Guest Service; Host
\* begins the start of the Host Service and refreshes the tree when the start
\* returns; no event begins the start of the other role's service, and an
\* unknown role begins nothing.
C18_EventAction == [][EventAction]_vars

C18_Witness ==
    /\ last.op = "roleChange" /\ role = "Unknown" /\ listeners = 1
    /\ tasks = <<>> /\ events = 2 /\ hostStarted

\* C19: no failure inside the sharing subsystem leaves the role-change handler
\* as a thrown error or a rejected promise: the handler's start of a service
\* and its sessionCleanup always return normally.
C19_NoPropagation ==
    /\ (last.op = "HostService.startService" /\ last.args[2] = "event")
          => last.ret # Rejected
    /\ (last.op = "GuestService.startService" /\ last.args[3] = "event")
          => last.ret # Rejected
    /\ last.op = "sessionCleanup" => last.ret # Rejected

\* a role-change handler is suspended at its await
EventPending == \E k \in 1..Len(tasks) : tasks[k].cont = "event"

Serialized ==
    /\ (last'.op = "roleChange" /\ events' > events) => ~EventPending
    /\ (role = "None" /\ events > 0)
          => /\ hostStarted' => hostStarted
             /\ guestStarted' => guestStarted

\* C20: an event's handler runs only after the handler of the event before has
\* finished, and once a None event has been handled no service becomes
\* started while the role stays None.
C20_Serialized == [][Serialized]_vars

\* e has an entry named a before an entry named b
Before(e, a, b) ==
    \E i, j \in 1..Len(e) : i < j /\ e[i][1] = a /\ e[j][1] = b

\* C21: a start of the Guest Service that obtained the channel binds the
\* guest command handlers before it sends attach-guest.
C21_BindBeforeAttach ==
    (last.op = "GuestService.startService" /\ last.args[1] = "proxy")
        => Before(eff, "bindGuest", "attach")

CountEff(e, name) == Cardinality({k \in 1..Len(e) : e[k][1] = name})
NoStaleHostStart ==
    \A k \in 1..Len(tasks) : tasks[k].kind = "hostStart" => tasks[k].gen = gen

HostStartBinds ==
    (last'.op = "HostService.startService" /\ last'.args[1] = "shared")
        => /\ CountEff(eff', "bindHost") = 1
           /\ hostBound' /\ service' = "shared"
           /\ NoStaleHostStart => hostStarted'
           /\ last'.ret = Void

\* C22: a start of the Host Service that obtained the channel runs the loop
\* binding the host commands on it once, and rHostService is started (when
\* the start is one of the current rHostService object).
C22_HostStartBinds == [][HostStartBinds]_vars

C22_Witness ==
    /\ last.op = "HostService.startService" /\ last.args[1] = "shared"
    /\ hostStarted /\ hostBound /\ role = "Host" /\ service = "shared"

HostStartPending ==
    \E k \in 1..Len(tasks) : tasks[k].kind = "hostStart" /\ tasks[k].gen = gen
HostNotifyOps ==
    {"notifyGlobalenv", "notifyRequest", "notifyPlot", "orderGuestDetach"}

HostLifecycle ==
    /\ HostStartPending' => ~hostStarted'
    /\ (~hostStarted /\ hostStarted')
          => (last'.op = "HostService.startService" /\ last'.args[1] = "shared")
    /\ (hostStarted /\ ~hostStarted' /\ gen' = gen)
          => (last'.op \in StopOps /\ last'.args[1] = "ok")
    /\ (last'.op \in HostNotifyOps /\ ~hostStarted') => out' = <<>>

\* C23: rHostService.isStarted() is false while a channel acquisition of
\* that object is pending, becomes true only when a startService obtained a
\* channel and false only through stopService, and no notify method sends a
\* message while it is false.
C23_HostLifecycle == [][HostLifecycle]_vars

CountKind(ts, kind) == Cardinality({k \in 1..Len(ts) : ts[k].kind = kind})
Begun(kind) == CountKind(tasks', kind) - CountKind(tasks, kind)

InitialRoleCheck ==
    (last'.op = "LiveSessionListener" /\ last'.args[1] = TRUE)
        => /\ listeners' = listeners + 1
           /\ hostStarted' = hostStarted /\ guestStarted' = guestStarted
           /\ role = "Guest" => (Begun("guestStart") = 1 /\ Begun("hostStart") = 0)
           /\ role = "Host" => (Begun("hostStart") = 1 /\ Begun("guestStart") = 0)
           /\ role = "None" => (Begun("hostStart") = 0 /\ Begun("guestStart") = 0)

\* C24: when LiveSessionListener obtains the API, it begins the start of the
\* Guest Service if the role is Guest at that moment and of the Host Service
\* if it is Host, with no role-change event needed; if the role is None it
\* begins no start.
C24_InitialRoleCheck == [][InitialRoleCheck]_vars

C24_Witness ==
    /\ last.op = "LiveSessionListener" /\ last.args[1] = TRUE /\ role = "Guest"
    /\ listeners = 1 /\ CountKind(tasks, "guestStart") = 1

\* C25: once LiveSessionListener has subscribed to the session changes, each
\* None event runs sessionCleanup exactly once, also after a retry.
C25_CleanupOnce ==
    (last.op = "roleChange" /\ last.args[1] = "None" /\ listeners > 0)
        => CountEff(eff, "sessionCleanup") = 1

CleanupSteps == {"stopService", "dispose", "refresh"}

CleanupOrder ==
    /\ (last'.op = "sessionCleanup" /\ last'.args[1] = "ok")
          => /\ eff'[1] = <<"stopService", 0>>
             /\ CountEff(eff', "stopService") = 1
             /\ ~Before(eff', "dispose", "stopService")
             /\ ~Before(eff', "refresh", "stopService")
             /\ ~Before(eff', "refresh", "dispose")
             /\ ~DisposeThrows(last'.args[2])
                   => /\ Len(eff') = Len(last'.args[2]) + 2
                      /\ \A i \in 1..Len(last'.args[2]) : eff'[i + 1] = <<"dispose", i>>
                      /\ eff'[Len(eff')] = <<"refresh", 0>>
    /\ (last'.op = "roleChange" /\ last'.args[1] = "None" /\ ~hostStarted)
          => /\ Begun("stop") = 0
             /\ \A k \in 1..Len(eff') : eff'[k][1] \notin CleanupSteps

\* C26: a cleanup that found the Host Service started stops it first, then
\* disposes of the browser resources in order, then refreshes the tree; a
\* cleanup that finds it not started does none of the three.
C26_CleanupOrder == [][CleanupOrder]_vars

C26_Witness ==
    /\ last.op = "sessionCleanup" /\ last.args[1] = "ok"
    /\ last.args[2] = <<FALSE, FALSE>> /\ Len(eff) = 4 /\ ~hostStarted

\* C27: requestRunTextInTerm(text) on a started Guest Service hands exactly
\* one run-text-in-term carrying that text to request(), for every text.
C27_RunTextForwarded ==
    (last.op = "requestRunTextInTerm" /\ guestStarted)
        => out = << [cmd |-> "run-text-in-term", args |-> <<last.args[1]>>,
                     chan |-> service] >>

C27_Witness ==
    /\ last.op = "requestRunTextInTerm" /\ guestStarted /\ service = "proxy"
    /\ last.args[1] = "t2" /\ Len(out) = 1

Matches(ts) == {i \in 1..Len(ts) : ts[i] \in rTermNameOptions}
Shown(e) == {e[k][2] : k \in {j \in 1..Len(e) : e[j][1] = "show"}}

\* C28: requestAttach on a started Guest Service hands one attach-guest to
\* request() and shows the first open terminal that has a shared-session name
\* (when the active terminal is not one already), and no other terminal.
C28_FirstMatchOnly ==
    (last.op = "requestAttach" /\ guestStarted /\ last.args[1].active # 0)
        => /\ out = << [cmd |-> "attach-guest", args |-> <<>>, chan |-> service] >>
           /\ \A i \in Shown(eff) :
                 i \in Matches(last.args[1].terminals)
                 /\ \A j \in Matches(last.args[1].terminals) : i <= j

\* C29: with the session watcher disabled initLiveShare does nothing: no run
\* of LiveSessionListener, no wait for the API, no listener, no command
\* registered, no service started, whatever the platform does afterwards.
C29_WatcherDisabled ==
    ~enableSessionWatcher
        => /\ gen = 0 /\ tasks = <<>> /\ ~liveSession /\ ~aborted
           /\ listeners = 0 /\ ~retryCmd /\ isGuestSession = "undefined"
           /\ ~hostStarted /\ ~guestStarted /\ service = "undefined"
           /\ ~hostBound /\ ~guestBound

C29_Witness ==
    /\ ~enableSessionWatcher /\ initCalled /\ events = MaxEvents /\ role = "Host"

\* C30: in every reachable state a started service holds a channel:
\* isStarted() of either service implies that `service` is a channel.
C30_StartedHoldsChannel ==
    (hostStarted \/ guestStarted) => service \in Channels

GuestStartPending == \E k \in 1..Len(tasks) : tasks[k].kind = "guestStart"

\* C31: whenever the Guest Service is started and no startService is still
\* running, the guest command handlers have been bound on the channel.
C31_StartedGuestBound ==
    (guestStarted /\ ~GuestStartPending) => guestBound

\* C32: once initLiveShare has set it, isGuestSession is true exactly when
\* isGuest() is true, after any sequence of role-change events.
C32_GuestFlagAgrees ==
    isGuestSession # "undefined" => ((isGuestSession = "true") <=> isGuest)

Count(s, v) == Cardinality({ i \in 1..Len(s) : s[i] = v })
Without(s, v) == SelectSeq(s, LAMBDA x : x # v)

RegisterKeeps ==
    last'.op = "registerActiveViewer"
        => LET v == last'.args[1]
           IN  /\ recentlyActiveViewers'[1] = v
               /\ Count(recentlyActiveViewers', v) = 1
               /\ Without(recentlyActiveViewers', v) = Without(recentlyActiveViewers, v)

\* C33: every call registerActiveViewer(v) leaves v first in
\* recentlyActiveViewers and in the list exactly once, and leaves the other
\* viewers of the list as they were, in the same order.
C33_RegisterKeeps == [][RegisterKeeps]_vars

\* C34: in every reachable state of a viewer no plot of plots has its id in
\* hiddenPlots, also when hidePlot ran while a refreshPlots call was waiting
\* for the plot server.
C34_NoHiddenShown == \A i \in 1..Len(plots) : plots[i] \notin hiddenPlots

\* a refreshPlots call has been answered since the last call began
Settled == refreshes = <<>> /\ latestIds # NoIds

\* C35: when no refreshPlots call is running any more, plots is built from
\* the id list answered to the most recently begun call: it has the ids of
\* that list only, in its order, and every id of the list that is not hidden.
C35_LatestListWins ==
    Settled => /\ plots = SelectSeq(latestIds, LAMBDA id : id \in Range(plots))
               /\ \A i \in 1..Len(latestIds) :
                      latestIds[i] \in hiddenPlots \/ latestIds[i] \in Range(plots)

\* C36: once a handleResize call has ended, fulfilled or rejected, resizeBusy
\* is false again, so the next resize message is handled.
C36_BusyReleased == ~resizing => ~resizeBusy

PlotStep ==
    last'.op \in {"nextPlot", "prevPlot"}
        => /\ plots' = <<>> => activePlot' = 0
           /\ plots' # <<>> => activePlot' \in Range(plots')
           /\ (last'.op = "nextPlot" /\ plots # <<>> /\ activePlot = plots[Len(plots)])
                 => activePlot' = activePlot
           /\ (last'.op = "prevPlot" /\ plots # <<>> /\ activePlot = plots[1])
                 => activePlot' = activePlot

\* C37: after nextPlot or prevPlot, activePlot is the id of a plot of plots
\* when there is one and undefined when plots is empty; nextPlot on the last
\* plot and prevPlot on the first plot leave activePlot as it is.
C37_PlotStep == [][PlotStep]_vars

\* nextPlot() was called on the last of two plots
C37_Witness ==
    /\ last.op = "nextPlot"
    /\ last.args = << FALSE >>
    /\ Len(plots) = 2
    /\ last.ret = 1
    /\ activePlot = plots[2]

\* C38: getHelpFileForPath(path, false) returns the html the help provider
\* delivers for the path, whatever calls were made before.
C38_UnmodifiedOnRequest ==
    (last.op = "getHelpFileForPath" /\ ~last.args[2] /\ last.ret # Null)
        => last.ret.html = getHelpFileFromRequestPath(last.args[1]).html

====
